---- MODULE Spec2Model ----
(***************************************************************************)
(* Model of scripts/req_mock.py: a batch of num_requests HTTP GETs driven  *)
(* through an asyncio.Semaphore(concurrency), whose outcomes are ingested  *)
(* into one RequestStats object and summarised at the end.                 *)
(*                                                                         *)
(* The program runs on one asyncio event loop: exactly one coroutine runs  *)
(* at a time and it keeps the loop until it reaches an await that really   *)
(* suspends (semaphore wait, session.get, response.text) or ends.  The     *)
(* variable `running` is the task that owns the loop.  Statements that do  *)
(* not suspend are separate actions that keep `running`.                   *)
(***************************************************************************)
EXTENDS Integers, Sequences, FiniteSets, TLC

\* Bounds of the model.
MaxRequests == 2
MaxConcurrency == 2
MaxLatency == 1

\* Number of error messages get_summary shows (self.errors[:10]).
ErrorsShown == 10

Tasks == 1..MaxRequests
NoTask == 0

\* Values of the command line (-n, -c, --min-id, --max-id).
NumRequestsSet == -1..MaxRequests
ConcurrencySet == -1..MaxConcurrency
IdRanges == {<<1, 2>>, <<2, 2>>, <<2, 1>>}

\* response.status values a server may answer with.
StatusCodes == {200, 500}

\* Elapsed times time.time() - start_time can yield (in clock ticks).
Latencies == 0..MaxLatency

NoSummary == [total_requests |-> -1]

\* Value of the local response_time before its assignment.
NotMeasured == -1

VARIABLES
    args,                 \* parsed command line: requests, concurrency, min_id, max_id
    mainpc,               \* position of main()
    pc,                   \* position of each bounded_request() task
    running,              \* task that owns the event loop, or NoTask
    sem_value,            \* asyncio.Semaphore._value
    sem_waiters,          \* asyncio.Semaphore._waiters (FIFO of tasks)
    sem_woken,            \* waiters whose future already has its result
    total_requests,       \* RequestStats.total_requests
    successful_requests,  \* RequestStats.successful_requests
    failed_requests,      \* RequestStats.failed_requests
    response_times,       \* RequestStats.response_times
    errors,               \* RequestStats.errors
    status,               \* response.status seen by each task (0: no response)
    response_time,        \* local response_time of each make_request
    site,                 \* branch of make_request the task is in
    raised,               \* the task ended with an exception
    sent,                 \* number of GETs each task issued
    calls,                \* number of add_success/add_failure calls each task completed
    reported,             \* summary handed to the report, or NoSummary
    responses,            \* number of responses received in full, by status code
    records               \* outcome records fed to a RequestStats on its own

statsVars == <<total_requests, successful_requests, failed_requests, response_times, errors>>
semVars == <<sem_value, sem_waiters, sem_woken>>
taskVars == <<pc, status, response_time, site, raised, sent, calls>>
vars == <<args, mainpc, running, semVars, statsVars, taskVars, reported, responses, records>>

----------------------------------------------------------------------------
\* Helpers on sequences.

RECURSIVE SumSeq(_)
SumSeq(s) == IF s = <<>> THEN 0 ELSE Head(s) + SumSeq(Tail(s))

RECURSIVE MinSeq(_)
MinSeq(s) == IF Len(s) = 1 THEN s[1]
             ELSE LET m == MinSeq(Tail(s)) IN IF s[1] < m THEN s[1] ELSE m

\* A maximum that depends on the order: the latest element.
MaxSeqLast(s) == s[Len(s)]

RECURSIVE MaxSeq(_)
MaxSeq(s) == IF Len(s) = 1 THEN s[1]
             ELSE LET m == MaxSeq(Tail(s)) IN IF s[1] > m THEN s[1] ELSE m

RECURSIVE SumFn(_, _)
SumFn(f, S) == IF S = {} THEN 0
               ELSE LET x == CHOOSE y \in S : TRUE IN f[x] + SumFn(f, S \ {x})

Remove(s, x) == SelectSeq(s, LAMBDA y : y # x)

\* The latest n elements instead of the first.
PrefixLatest(s, n) == SubSeq(s, IF Len(s) < n THEN 1 ELSE Len(s) - n + 1, Len(s))

Prefix(s, n) == SubSeq(s, 1, IF Len(s) < n THEN Len(s) ELSE n)

----------------------------------------------------------------------------
\* RequestStats.get_summary.  Latencies are kept in clock ticks, so the
\* conversion to milliseconds rounded to two places is the rounding of the
\* mean to a whole tick (round half to even, as Python's round does).

RoundHalfEven(num, den) ==
    LET q == num \div den
        r == num % den
    IN  IF 2 * r < den THEN q
        ELSE IF 2 * r > den THEN q + 1
        ELSE IF q % 2 = 0 THEN q ELSE q + 1

\* The summary of a RequestStats object s.  success_rate is the fraction
\* successful * 100 / total, kept as <<numerator, denominator>>.
GetSummary(s) ==
    LET has == s.response_times # <<>>
    IN  [total_requests |-> s.total_requests,
         successful_requests |-> s.successful_requests,
         failed_requests |-> s.failed_requests,
         success_rate |-> IF s.total_requests > 0
                          THEN <<s.successful_requests * 100, s.total_requests>>
                          ELSE <<0, 1>>,
         avg_response_time_ms |-> IF has
                                  THEN RoundHalfEven(SumSeq(s.response_times), Len(s.response_times))
                                  ELSE 0,
         min_response_time_ms |-> IF has THEN MinSeq(s.response_times) ELSE 0,
         max_response_time_ms |-> IF has THEN MaxSeq(s.response_times) ELSE 0,
         errors |-> Prefix(s.errors, ErrorsShown)]

\* The program's RequestStats object.
Stats ==
    [total_requests |-> total_requests,
     successful_requests |-> successful_requests,
     failed_requests |-> failed_requests,
     response_times |-> response_times,
     errors |-> errors]

get_summary == GetSummary(Stats)

\* RequestStats.__init__
EmptyStats ==
    [total_requests |-> 0,
     successful_requests |-> 0,
     failed_requests |-> 0,
     response_times |-> <<>>,
     errors |-> <<>>]

\* RequestStats.add_success as one call.
AddSuccess(s, rt) ==
    [s EXCEPT !.total_requests = @ + 1,
              !.successful_requests = @ + 1,
              !.response_times = Append(@, rt)]

\* An add_failure that records every latency.
AddFailureAlwaysTimes(s, error, rt) ==
    [s EXCEPT !.total_requests = @ + 1,
              !.failed_requests = @ + 1,
              !.errors = Append(@, error),
              !.response_times = Append(@, rt)]

\* RequestStats.add_failure as one call.
AddFailure(s, error, rt) ==
    [s EXCEPT !.total_requests = @ + 1,
              !.failed_requests = @ + 1,
              !.errors = Append(@, error),
              !.response_times = IF rt > 0 THEN Append(@, rt) ELSE @]

----------------------------------------------------------------------------
\* asyncio.Semaphore

\* Mutant of locked: the test for a free slot is off by one.
lockedOffByOne == sem_value < 0 \/ sem_waiters # <<>>

\* locked(): no free slot, or somebody is already queued.
locked == sem_value = 0 \/ sem_waiters # <<>>

\* _wake_up_next applied to a (value, waiters, woken) triple: the first
\* waiter whose future is not done gets the slot.
WakeUpNext(v, w, k) ==
    LET idx == {j \in 1..Len(w) : w[j] \notin k}
    IN  IF idx = {} THEN [value |-> v, woken |-> k, did |-> FALSE]
        ELSE LET j == CHOOSE a \in idx : \A b \in idx : a <= b
             IN  [value |-> v - 1, woken |-> k \cup {w[j]}, did |-> TRUE]

\* while self._value > 0: if not self._wake_up_next(): break
RECURSIVE WakeWhilePositive(_, _, _)
WakeWhilePositive(v, w, k) ==
    IF v > 0
    THEN LET r == WakeUpNext(v, w, k)
         IN  IF r.did THEN WakeWhilePositive(r.value, w, r.woken)
             ELSE [value |-> v, woken |-> k]
    ELSE [value |-> v, woken |-> k]

\* Mutant of SemRelease: the slot is given back but no waiter is woken.
SemReleaseNoWake ==
    /\ sem_value' = sem_value + 1
    /\ UNCHANGED <<sem_waiters, sem_woken>>

\* release(): self._value += 1; self._wake_up_next()
SemRelease ==
    LET r == WakeUpNext(sem_value + 1, sem_waiters, sem_woken)
    IN  /\ sem_value' = r.value
        /\ sem_woken' = r.woken
        /\ UNCHANGED sem_waiters

----------------------------------------------------------------------------
Init ==
    /\ args \in {[requests |-> n, concurrency |-> c, min_id |-> r[1], max_id |-> r[2]] :
                    n \in NumRequestsSet, c \in ConcurrencySet, r \in IdRanges}
    /\ mainpc = "validate"
    /\ pc = [i \in Tasks |-> "unused"]
    /\ running = NoTask
    /\ sem_value = 0
    /\ sem_waiters = <<>>
    /\ sem_woken = {}
    /\ total_requests = 0
    /\ successful_requests = 0
    /\ failed_requests = 0
    /\ response_times = <<>>
    /\ errors = <<>>
    /\ status = [i \in Tasks |-> 0]
    /\ response_time = [i \in Tasks |-> NotMeasured]
    /\ site = [i \in Tasks |-> "none"]
    /\ raised = [i \in Tasks |-> FALSE]
    /\ sent = [i \in Tasks |-> 0]
    /\ calls = [i \in Tasks |-> 0]
    /\ reported = NoSummary
    /\ responses = [st \in StatusCodes |-> 0]
    /\ records = <<>>

----------------------------------------------------------------------------
\* main()

NumRequests == args.requests

IsTask(i) == i \in Tasks /\ i <= NumRequests

ValidArgs ==
    /\ args.requests > 0
    /\ args.concurrency > 0
    /\ args.min_id < args.max_id

\* Mutant of Validate: the id range is tested with > instead of >=.
ValidateIdsLoose ==
    /\ mainpc = "validate"
    /\ mainpc' = IF args.requests <= 0 THEN "rejected"
                 ELSE IF args.concurrency <= 0 THEN "rejected"
                 ELSE IF args.min_id > args.max_id THEN "rejected"
                 ELSE "run"
    /\ UNCHANGED <<args, records, responses, running, semVars, statsVars, taskVars, reported>>

\* The three checks of main(): each prints a message and returns.
Validate ==
    /\ mainpc = "validate"
    /\ mainpc' = IF args.requests <= 0 THEN "rejected"
                 ELSE IF args.concurrency <= 0 THEN "rejected"
                 ELSE IF args.min_id >= args.max_id THEN "rejected"
                 ELSE "run"
    /\ UNCHANGED <<args, records, responses, running, semVars, statsVars, taskVars, reported>>

\* run_concurrent_requests up to the await of asyncio.gather: a fresh
\* RequestStats, the semaphore, and one bounded_request() per request.
RunConcurrentRequests ==
    /\ mainpc = "run"
    /\ mainpc' = "gather"
    /\ total_requests' = 0
    /\ successful_requests' = 0
    /\ failed_requests' = 0
    /\ response_times' = <<>>
    /\ errors' = <<>>
    /\ sem_value' = args.concurrency
    /\ sem_waiters' = <<>>
    /\ sem_woken' = {}
    /\ pc' = [i \in Tasks |-> IF i <= args.requests THEN "created" ELSE "unused"]
    /\ UNCHANGED <<args, records, responses, running, status, response_time, site, raised, sent, calls, reported>>

AllTasksOver == \A i \in Tasks : pc[i] \in {"unused", "done", "cancelled"}

\* A gather that returns with the first task that ends.
GatherReturnsEarly ==
    /\ mainpc = "gather"
    /\ running = NoTask
    /\ \E i \in Tasks : pc[i] = "done"
    /\ mainpc' = "report"
    /\ UNCHANGED <<args, records, responses, running, semVars, statsVars, taskVars, reported>>

\* asyncio.gather(*tasks, return_exceptions=True) returns once every task
\* has a result or an exception; run_concurrent_requests then returns stats.
GatherReturns ==
    /\ mainpc = "gather"
    /\ running = NoTask
    /\ \A i \in Tasks : pc[i] \in {"unused", "done"}
    /\ mainpc' = "report"
    /\ UNCHANGED <<args, records, responses, running, semVars, statsVars, taskVars, reported>>

\* stats.get_summary(), directly (--json-output) or in print_statistics.
Report ==
    /\ mainpc = "report"
    /\ reported' = get_summary
    /\ mainpc' = "finished"
    /\ UNCHANGED <<args, records, responses, running, semVars, statsVars, taskVars>>

\* SIGINT during the batch.  asyncio.run's handler cancels the main task,
\* which is awaiting gather, and gather cancels every child that is not
\* done.  A cancellation takes effect at the task's suspension point, so a
\* signal that arrives in the middle of a task's step acts as one that
\* arrives when that step ends: the action is taken with the loop idle.
Interrupt ==
    /\ mainpc = "gather"
    /\ running = NoTask
    /\ mainpc' = "cancelling"
    /\ UNCHANGED <<args, records, responses, running, semVars, statsVars, taskVars, reported>>

\* Once every child is over, CancelledError is raised at the await of
\* gather.  It is a BaseException: neither `except KeyboardInterrupt` nor
\* `except Exception` of main() handles it, and asyncio.run turns it into
\* KeyboardInterrupt.  main() never reaches get_summary.
MainCancelled ==
    /\ mainpc = "cancelling"
    /\ running = NoTask
    /\ AllTasksOver
    /\ mainpc' = "interrupted"
    /\ UNCHANGED <<args, records, responses, running, semVars, statsVars, taskVars, reported>>

----------------------------------------------------------------------------
\* bounded_request(): async with semaphore

\* gather wraps the coroutines into tasks in list order and the loop's ready
\* queue is FIFO: every task runs its first step, in that order, before the
\* loop polls for I/O again.
FirstCreated(i) == pc[i] = "created" /\ \A j \in Tasks : j < i => pc[j] # "created"

AllStarted == \A i \in Tasks : pc[i] # "created"

\* First step of a task: semaphore.acquire().  A free semaphore is taken
\* without suspending; otherwise the task queues and suspends.
Acquire(i) ==
    /\ mainpc = "gather"
    /\ running = NoTask
    /\ FirstCreated(i)
    /\ IF ~locked
       THEN /\ sem_value' = sem_value - 1
            /\ pc' = [pc EXCEPT ![i] = "holding"]
            /\ running' = i
            /\ UNCHANGED <<sem_waiters, sem_woken>>
       ELSE /\ sem_waiters' = Append(sem_waiters, i)
            /\ pc' = [pc EXCEPT ![i] = "waiting"]
            /\ UNCHANGED <<sem_value, sem_woken, running>>
    /\ UNCHANGED <<args, records, responses, mainpc, statsVars, status, response_time, site, raised, sent, calls, reported>>

\* A waiter whose future got its result resumes in acquire(): it leaves
\* the queue and wakes as many further waiters as there are free slots.
Resume(i) ==
    /\ mainpc = "gather"
    /\ running = NoTask
    /\ pc[i] = "waiting"
    /\ i \in sem_woken
    /\ LET w == Remove(sem_waiters, i)
           r == WakeWhilePositive(sem_value, w, sem_woken \ {i})
       IN  /\ sem_waiters' = w
           /\ sem_value' = r.value
           /\ sem_woken' = r.woken
    /\ pc' = [pc EXCEPT ![i] = "holding"]
    /\ running' = i
    /\ UNCHANGED <<args, records, responses, mainpc, statsVars, status, response_time, site, raised, sent, calls, reported>>

\* Leaving `async with semaphore`, normally or with an exception: the slot
\* is released and the task ends.  The locals of make_request are gone, and
\* gather's list of results is not kept by run_concurrent_requests.
Release(i) ==
    /\ running = i
    /\ pc[i] = "release"
    /\ SemRelease
    /\ pc' = [pc EXCEPT ![i] = "done"]
    /\ running' = NoTask
    /\ status' = [status EXCEPT ![i] = 0]
    /\ response_time' = [response_time EXCEPT ![i] = NotMeasured]
    /\ site' = [site EXCEPT ![i] = "none"]
    /\ raised' = [raised EXCEPT ![i] = FALSE]
    /\ UNCHANGED <<args, records, responses, mainpc, statsVars, sent, calls, reported>>

\* CancelledError delivered to a task at its suspension point.  A task that
\* never started just ends; a waiter leaves the queue and gives back a slot
\* it was already handed; a task inside make_request is not caught by
\* `except Exception` and leaves `async with semaphore`, which releases.
Cancelled(i) ==
    /\ mainpc = "cancelling"
    /\ running = NoTask
    /\ pc[i] \in {"created", "waiting", "get", "text"}
    /\ IF pc[i] = "created"
       THEN UNCHANGED semVars
       ELSE IF pc[i] = "waiting"
       THEN LET w == Remove(sem_waiters, i)
                v == IF i \in sem_woken THEN sem_value + 1 ELSE sem_value
                r == WakeWhilePositive(v, w, sem_woken \ {i})
            IN  /\ sem_waiters' = w
                /\ sem_value' = r.value
                /\ sem_woken' = r.woken
       ELSE SemRelease
    /\ pc' = [pc EXCEPT ![i] = "cancelled"]
    /\ status' = [status EXCEPT ![i] = 0]
    /\ response_time' = [response_time EXCEPT ![i] = NotMeasured]
    /\ UNCHANGED <<args, records, responses, mainpc, running, statsVars, site, raised, sent, calls, reported>>

----------------------------------------------------------------------------
\* make_request()

\* error_msg of the three failure branches; both a timeout and any other
\* exception are reported by the `except Exception` handler.
ErrorMsg(branch, st) ==
    IF branch = "http" THEN <<"HTTP", st>>
    ELSE IF branch = "client" THEN <<"ClientError", 0>>
    ELSE <<"Exception", 0>>

\* random.randint(min_id, max_id), start_time = time.time(), session.get(url):
\* the GET is issued and the task suspends until the response arrives.
SendGet(i) ==
    /\ running = i
    /\ pc[i] = "holding"
    /\ \E user_id \in args.min_id..args.max_id :
          /\ sent' = [sent EXCEPT ![i] = @ + 1]
          /\ pc' = [pc EXCEPT ![i] = "get"]
    /\ running' = NoTask
    /\ UNCHANGED <<args, records, responses, mainpc, semVars, statsVars, status, response_time, site, raised, calls, reported>>

\* The response arrives: end_time and response_time are taken, then the
\* task suspends in response.text().
Response(i) ==
    /\ mainpc = "gather"
    /\ running = NoTask
    /\ AllStarted
    /\ pc[i] = "get"
    /\ \E st \in StatusCodes, t \in Latencies :
          /\ status' = [status EXCEPT ![i] = st]
          /\ response_time' = [response_time EXCEPT ![i] = t]
    /\ pc' = [pc EXCEPT ![i] = "text"]
    /\ UNCHANGED <<args, records, responses, mainpc, running, semVars, statsVars, site, raised, sent, calls, reported>>

\* Mutant of BodyRead: the task is resumed while another one still owns the
\* loop (preemptive scheduling instead of the cooperative event loop).
BodyReadPreempting(i) ==
    /\ mainpc = "gather"
    /\ AllStarted
    /\ pc[i] = "text"
    /\ running' = i
    /\ IF status[i] = 200
       THEN /\ site' = [site EXCEPT ![i] = "success"]
            /\ pc' = [pc EXCEPT ![i] = "add_success_total"]
       ELSE /\ site' = [site EXCEPT ![i] = "http"]
            /\ pc' = [pc EXCEPT ![i] = "add_failure_total"]
    /\ responses' = [responses EXCEPT ![status[i]] = @ + 1]
    /\ UNCHANGED <<args, records, mainpc, semVars, statsVars, status, response_time, raised, sent, calls, reported>>

\* The body is read, which completes the response: the task goes on to
\* add_success (status 200) or builds error_msg and goes on to add_failure.
BodyRead(i) ==
    /\ mainpc = "gather"
    /\ running = NoTask
    /\ AllStarted
    /\ pc[i] = "text"
    /\ running' = i
    /\ IF status[i] = 200
       THEN /\ site' = [site EXCEPT ![i] = "success"]
            /\ pc' = [pc EXCEPT ![i] = "add_success_total"]
       ELSE /\ site' = [site EXCEPT ![i] = "http"]
            /\ pc' = [pc EXCEPT ![i] = "add_failure_total"]
    /\ responses' = [responses EXCEPT ![status[i]] = @ + 1]
    /\ UNCHANGED <<args, records, mainpc, semVars, statsVars, status, response_time, raised, sent, calls, reported>>

\* Mutant of ClientError: no handler, the error leaves make_request and
\* nothing is recorded.
ClientErrorEscapes(i) ==
    /\ mainpc = "gather"
    /\ running = NoTask
    /\ AllStarted
    /\ pc[i] \in {"get", "text"}
    /\ running' = i
    /\ site' = [site EXCEPT ![i] = "client"]
    /\ raised' = [raised EXCEPT ![i] = TRUE]
    /\ pc' = [pc EXCEPT ![i] = "release"]
    /\ UNCHANGED <<args, records, responses, mainpc, semVars, statsVars, status, response_time, sent, calls, reported>>

\* session.get or response.text raises aiohttp.ClientError: the handler
\* measures the elapsed time and goes on to add_failure.
ClientError(i) ==
    /\ mainpc = "gather"
    /\ running = NoTask
    /\ AllStarted
    /\ pc[i] \in {"get", "text"}
    /\ running' = i
    /\ \E t \in Latencies :
          /\ t >= response_time[i]
          /\ response_time' = [response_time EXCEPT ![i] = t]
    /\ site' = [site EXCEPT ![i] = "client"]
    /\ pc' = [pc EXCEPT ![i] = "add_failure_total"]
    /\ UNCHANGED <<args, records, responses, mainpc, semVars, statsVars, status, raised, sent, calls, reported>>

\* The 30 s of ClientTimeout(total=30) expire while the task is suspended:
\* aiohttp raises asyncio.TimeoutError, which is no aiohttp.ClientError, so
\* the `except Exception` handler takes it.
Timeout(i) ==
    /\ mainpc = "gather"
    /\ running = NoTask
    /\ AllStarted
    /\ pc[i] \in {"get", "text"}
    /\ running' = i
    /\ \E t \in Latencies :
          /\ t >= response_time[i]
          /\ response_time' = [response_time EXCEPT ![i] = t]
    /\ site' = [site EXCEPT ![i] = "timeout"]
    /\ pc' = [pc EXCEPT ![i] = "add_failure_total"]
    /\ UNCHANGED <<args, records, responses, mainpc, semVars, statsVars, status, raised, sent, calls, reported>>

\* session.get or response.text raises another Exception that is no
\* transport failure (a decoding error): the `except Exception` handler.
OtherException(i) ==
    /\ mainpc = "gather"
    /\ running = NoTask
    /\ AllStarted
    /\ pc[i] \in {"get", "text"}
    /\ running' = i
    /\ \E t \in Latencies :
          /\ t >= response_time[i]
          /\ response_time' = [response_time EXCEPT ![i] = t]
    /\ site' = [site EXCEPT ![i] = "exception"]
    /\ pc' = [pc EXCEPT ![i] = "add_failure_total"]
    /\ UNCHANGED <<args, records, responses, mainpc, semVars, statsVars, status, raised, sent, calls, reported>>

----------------------------------------------------------------------------
\* RequestStats.add_success, one action per statement.

AddSuccessTotal(i) ==
    /\ running = i
    /\ pc[i] = "add_success_total"
    /\ total_requests' = total_requests + 1
    /\ pc' = [pc EXCEPT ![i] = "add_success_count"]
    /\ UNCHANGED <<args, records, responses, mainpc, running, semVars, successful_requests, failed_requests,
                   response_times, errors, status, response_time, site, raised, sent, calls, reported>>

AddSuccessCount(i) ==
    /\ running = i
    /\ pc[i] = "add_success_count"
    /\ successful_requests' = successful_requests + 1
    /\ pc' = [pc EXCEPT ![i] = "add_success_time"]
    /\ UNCHANGED <<args, records, responses, mainpc, running, semVars, total_requests, failed_requests,
                   response_times, errors, status, response_time, site, raised, sent, calls, reported>>

AddSuccessTime(i) ==
    /\ running = i
    /\ pc[i] = "add_success_time"
    /\ response_times' = Append(response_times, response_time[i])
    /\ calls' = [calls EXCEPT ![i] = @ + 1]
    /\ pc' = [pc EXCEPT ![i] = "print"]
    /\ UNCHANGED <<args, records, responses, mainpc, running, semVars, total_requests, successful_requests,
                   failed_requests, errors, status, response_time, site, raised, sent, reported>>

\* RequestStats.add_failure, one action per statement.

AddFailureTotal(i) ==
    /\ running = i
    /\ pc[i] = "add_failure_total"
    /\ total_requests' = total_requests + 1
    /\ pc' = [pc EXCEPT ![i] = "add_failure_count"]
    /\ UNCHANGED <<args, records, responses, mainpc, running, semVars, successful_requests, failed_requests,
                   response_times, errors, status, response_time, site, raised, sent, calls, reported>>

\* Mutant of AddFailureCount: the failure counter is not incremented.
AddFailureCountForgets(i) ==
    /\ running = i
    /\ pc[i] = "add_failure_count"
    /\ pc' = [pc EXCEPT ![i] = "add_failure_error"]
    /\ UNCHANGED <<args, records, responses, mainpc, running, semVars, statsVars, status, response_time, site, raised, sent, calls, reported>>

AddFailureCount(i) ==
    /\ running = i
    /\ pc[i] = "add_failure_count"
    /\ failed_requests' = failed_requests + 1
    /\ pc' = [pc EXCEPT ![i] = "add_failure_error"]
    /\ UNCHANGED <<args, records, responses, mainpc, running, semVars, total_requests, successful_requests,
                   response_times, errors, status, response_time, site, raised, sent, calls, reported>>

AddFailureError(i) ==
    /\ running = i
    /\ pc[i] = "add_failure_error"
    /\ errors' = Append(errors, ErrorMsg(site[i], status[i]))
    /\ pc' = [pc EXCEPT ![i] = "add_failure_time"]
    /\ UNCHANGED <<args, records, responses, mainpc, running, semVars, total_requests, successful_requests,
                   failed_requests, response_times, status, response_time, site, raised, sent, calls, reported>>

\* if response_time > 0: self.response_times.append(response_time)
AddFailureTime(i) ==
    /\ running = i
    /\ pc[i] = "add_failure_time"
    /\ response_times' = IF response_time[i] > 0
                         THEN Append(response_times, response_time[i])
                         ELSE response_times
    /\ calls' = [calls EXCEPT ![i] = @ + 1]
    /\ pc' = [pc EXCEPT ![i] = "print"]
    /\ UNCHANGED <<args, records, responses, mainpc, running, semVars, total_requests, successful_requests,
                   failed_requests, errors, status, response_time, site, raised, sent, reported>>

----------------------------------------------------------------------------
\* The print that follows each add_success/add_failure.

\* A make_request that sends the GET again after a non-200 response.
PrintOkRetries(i) ==
    /\ running = i
    /\ pc[i] = "print"
    /\ pc' = [pc EXCEPT ![i] = IF site[i] = "http" THEN "holding" ELSE "release"]
    /\ UNCHANGED <<args, records, responses, mainpc, running, semVars, statsVars, status, response_time, site, raised, sent, calls, reported>>

\* The line is written: make_request returns.
PrintOk(i) ==
    /\ running = i
    /\ pc[i] = "print"
    /\ pc' = [pc EXCEPT ![i] = "release"]
    /\ UNCHANGED <<args, records, responses, mainpc, running, semVars, statsVars, status, response_time, site, raised, sent, calls, reported>>

\* Mutant of PrintRaises: the semaphore is acquired and released by hand
\* around make_request, so an exception that leaves make_request skips the
\* release.
PrintRaisesNoRelease(i) ==
    /\ running = i
    /\ pc[i] = "print"
    /\ IF site[i] \in {"success", "http"}
       THEN /\ \E t \in Latencies :
                  /\ t >= response_time[i]
                  /\ response_time' = [response_time EXCEPT ![i] = t]
            /\ site' = [site EXCEPT ![i] = "exception"]
            /\ pc' = [pc EXCEPT ![i] = "add_failure_total"]
            /\ UNCHANGED <<raised, running, status>>
       ELSE /\ pc' = [pc EXCEPT ![i] = "done"]
            /\ running' = NoTask
            /\ status' = [status EXCEPT ![i] = 0]
            /\ response_time' = [response_time EXCEPT ![i] = NotMeasured]
            /\ site' = [site EXCEPT ![i] = "none"]
            /\ UNCHANGED raised
    /\ UNCHANGED <<args, records, responses, mainpc, semVars, statsVars, sent, calls, reported>>

\* print raises (a closed pipe, a stream that cannot encode the line).
\* Inside the try body the exception is caught by `except Exception`, which
\* measures the time and calls add_failure; inside a handler it leaves
\* make_request.
PrintRaises(i) ==
    /\ running = i
    /\ pc[i] = "print"
    /\ IF site[i] \in {"success", "http"}
       THEN /\ \E t \in Latencies :
                  /\ t >= response_time[i]
                  /\ response_time' = [response_time EXCEPT ![i] = t]
            /\ site' = [site EXCEPT ![i] = "exception"]
            /\ pc' = [pc EXCEPT ![i] = "add_failure_total"]
            /\ UNCHANGED raised
       ELSE /\ raised' = [raised EXCEPT ![i] = TRUE]
            /\ pc' = [pc EXCEPT ![i] = "release"]
            /\ UNCHANGED <<response_time, site>>
    /\ UNCHANGED <<args, records, responses, mainpc, running, semVars, statsVars, status, sent, calls, reported>>

----------------------------------------------------------------------------
TaskStep(i) ==
    \/ Acquire(i)
    \/ Resume(i)
    \/ SendGet(i)
    \/ Response(i)
    \/ BodyRead(i)
    \/ ClientError(i)
    \/ Timeout(i)
    \/ OtherException(i)
    \/ AddSuccessTotal(i)
    \/ AddSuccessCount(i)
    \/ AddSuccessTime(i)
    \/ AddFailureTotal(i)
    \/ AddFailureCount(i)
    \/ AddFailureError(i)
    \/ AddFailureTime(i)
    \/ PrintOk(i)
    \/ PrintRaises(i)
    \/ Release(i)

MainStep ==
    \/ Validate
    \/ RunConcurrentRequests
    \/ GatherReturns
    \/ Report

Next ==
    \/ MainStep
    \/ \E i \in Tasks : TaskStep(i)
    \/ Interrupt
    \/ \E i \in Tasks : Cancelled(i)
    \/ MainCancelled

Spec == Init /\ [][Next]_vars

\* The run without an interrupt, under a fair event loop: every task that
\* can take a step eventually does (a request in flight eventually gets its
\* response, an error or the timeout), and so does main().
NextRun ==
    \/ MainStep
    \/ \E i \in Tasks : TaskStep(i)

LiveSpec ==
    /\ Init
    /\ [][NextRun]_vars
    /\ WF_vars(MainStep)
    /\ \A i \in Tasks : WF_vars(TaskStep(i))

----------------------------------------------------------------------------
\* RequestStats on its own: a fresh object is fed outcome records by a single
\* caller, one complete add_success/add_failure call at a time, and is then
\* summarised (any number of times).

\* Longest list of records fed, and the most successes in it.
MaxRecords == 11
MaxSuccesses == 1

\* The records fed: a success, a failure with a measured latency and a
\* failure whose latency is 0.
OutcomeRecords ==
    {[succeeded |-> TRUE, response_time |-> 1, error |-> <<"", 0>>],
     [succeeded |-> FALSE, response_time |-> 2, error |-> <<"HTTP", 500>>],
     [succeeded |-> FALSE, response_time |-> 0, error |-> <<"ClientError", 0>>]}

\* What make_request does with an outcome: lines 80, 84, 91 and 97.
Ingest(s, r) ==
    IF r.succeeded THEN AddSuccess(s, r.response_time)
    ELSE AddFailure(s, r.error, r.response_time)

\* A fresh RequestStats fed the first n of the records rs in order.
RECURSIVE IngestFirst(_, _)
IngestFirst(rs, n) ==
    IF n = 0 THEN EmptyStats ELSE Ingest(IngestFirst(rs, n - 1), rs[n])

\* A fresh RequestStats fed the records rs in order.
IngestAll(rs) == IngestFirst(rs, Len(rs))

AggInit ==
    /\ args = [requests |-> 200, concurrency |-> 100, min_id |-> 1, max_id |-> 10000]
    /\ mainpc = "aggregate"
    /\ pc = [i \in Tasks |-> "unused"]
    /\ running = NoTask
    /\ sem_value = 0
    /\ sem_waiters = <<>>
    /\ sem_woken = {}
    /\ total_requests = 0
    /\ successful_requests = 0
    /\ failed_requests = 0
    /\ response_times = <<>>
    /\ errors = <<>>
    /\ status = [i \in Tasks |-> 0]
    /\ response_time = [i \in Tasks |-> NotMeasured]
    /\ site = [i \in Tasks |-> "none"]
    /\ raised = [i \in Tasks |-> FALSE]
    /\ sent = [i \in Tasks |-> 0]
    /\ calls = [i \in Tasks |-> 0]
    /\ reported = NoSummary
    /\ responses = [st \in StatusCodes |-> 0]
    /\ records = <<>>

\* The stats variables become the object s.
StatsBecome(s) ==
    /\ total_requests' = s.total_requests
    /\ successful_requests' = s.successful_requests
    /\ failed_requests' = s.failed_requests
    /\ response_times' = s.response_times
    /\ errors' = s.errors

\* One record is ingested (before the summary is read).
IngestRecord ==
    /\ mainpc = "aggregate"
    /\ reported = NoSummary
    /\ Len(records) < MaxRecords
    /\ \E r \in OutcomeRecords :
          /\ r.succeeded => successful_requests < MaxSuccesses
          /\ StatsBecome(Ingest(Stats, r))
          /\ records' = Append(records, r)
    /\ UNCHANGED <<args, mainpc, running, semVars, taskVars, reported, responses>>

\* A get_summary that cuts the stored errors down to the ones it returns.
SummariseTruncating ==
    /\ mainpc = "aggregate"
    /\ reported' = get_summary
    /\ errors' = Prefix(errors, ErrorsShown)
    /\ UNCHANGED <<args, mainpc, running, semVars, total_requests, successful_requests,
                   failed_requests, response_times, taskVars, responses, records>>

\* stats.get_summary() is called.
Summarise ==
    /\ mainpc = "aggregate"
    /\ reported' = get_summary
    /\ UNCHANGED <<args, mainpc, running, semVars, statsVars, taskVars, responses, records>>

AggNext ==
    \/ IngestRecord
    \/ Summarise

AggSpec == AggInit /\ [][AggNext]_vars

----------------------------------------------------------------------------
\* Vocabulary of the properties.

\* Positions inside `async with semaphore` (the body is make_request).
InSection == {"holding", "get", "text",
              "add_success_total", "add_success_count", "add_success_time",
              "add_failure_total", "add_failure_count", "add_failure_error",
              "add_failure_time", "print", "release"}

\* Positions after the first and before the last statement of add_success
\* or add_failure.
InAddPositions == {"add_success_count", "add_success_time",
                   "add_failure_count", "add_failure_error", "add_failure_time"}

Executing == {i \in Tasks : pc[i] \in InSection}

InAdd == {i \in Tasks : pc[i] \in InAddPositions}

\* Tasks that own a slot: those in the section and the waiters that were
\* handed one by _wake_up_next and have not resumed yet.
Holders == Executing \cup {i \in Tasks : pc[i] = "waiting" /\ i \in sem_woken}

BatchStarted == mainpc \in {"gather", "cancelling", "interrupted", "report", "finished"}

BatchReturned == mainpc \in {"report", "finished"}

----------------------------------------------------------------------------
\* C1: with concurrency = k > 0, at most k work units are inside the
\* semaphore-protected section (executing make_request) in every state.
C1_AtMostKInSection ==
    args.concurrency > 0 => Cardinality(Executing) <= args.concurrency

\* Witness: the limit is reached while a further work unit waits.
C1_Witness ==
    /\ args.concurrency > 0
    /\ Cardinality(Executing) = args.concurrency
    /\ \E i \in Tasks : pc[i] = "waiting"

----------------------------------------------------------------------------
\* C2 (as claimed): when run_concurrent_requests has run to completion
\* without interruption, total_requests equals num_requests, whatever the
\* requests produced.
C2_TotalEqualsNumRequests ==
    BatchReturned => total_requests = args.requests

----------------------------------------------------------------------------
\* C3 (as claimed): every request attempt that has ended, on whatever path,
\* made exactly one call of add_success or add_failure.
C3_ExactlyOneIngestion ==
    \A i \in Tasks : pc[i] = "done" => calls[i] = 1

----------------------------------------------------------------------------
\* C4: in every state in which no add_success/add_failure call is under
\* way (so in every state at a suspension point and between two calls),
\* successful_requests + failed_requests = total_requests, and the three
\* counters are non-negative.
C4_CountersAddUp ==
    InAdd = {} =>
        /\ successful_requests + failed_requests = total_requests
        /\ total_requests >= 0
        /\ successful_requests >= 0
        /\ failed_requests >= 0

\* Witness: the loop is idle after a success and a failure were ingested.
C4_Witness ==
    /\ running = NoTask
    /\ successful_requests > 0
    /\ failed_requests > 0
    /\ total_requests = successful_requests + failed_requests

----------------------------------------------------------------------------
\* C5: no two work units are inside add_success/add_failure at the same
\* time, and no update is lost: total_requests is the number of calls that
\* completed plus the call under way, and once no call is under way every
\* completed call is counted once (in total_requests, in exactly one of
\* successful_requests and failed_requests, and in errors if a failure).
C5_NoLostUpdate ==
    /\ Cardinality(InAdd) <= 1
    /\ total_requests = SumFn(calls, Tasks) + Cardinality(InAdd)
    /\ InAdd = {} =>
          /\ successful_requests + failed_requests = SumFn(calls, Tasks)
          /\ Len(errors) = failed_requests

\* Witness: one work unit has completed an ingestion and another one is in
\* the middle of its own call.
C5_Witness ==
    /\ \E i, j \in Tasks : i # j /\ calls[i] = 1 /\ pc[i] = "done" /\ pc[j] \in InAddPositions
    /\ total_requests = 2

----------------------------------------------------------------------------
\* C6: a failed request never aborts the batch.  The failure is recorded
\* (a work unit that leaves make_request on a failure branch has made an
\* add_failure call), no work unit is cancelled while the batch is not
\* interrupted, and when gather returns every one of the num_requests work
\* units has issued its GET and run to its end.
C6_FailureNeverAborts ==
    /\ \A i \in Tasks :
          (pc[i] = "release" /\ site[i] \in {"http", "client", "timeout", "exception"}) =>
              (calls[i] >= 1 /\ failed_requests >= 1 /\ errors # <<>>)
    /\ mainpc \in {"gather", "report", "finished"} =>
          \A i \in Tasks : pc[i] # "cancelled"
    /\ BatchReturned =>
          \A i \in Tasks : i <= args.requests => (pc[i] = "done" /\ sent[i] = 1)

\* Witness: the batch of two has returned; the request that finished first
\* failed with a ClientError and the other one succeeded after it.
C6_Witness ==
    /\ BatchReturned
    /\ args.requests = 2
    /\ failed_requests >= 1
    /\ successful_requests >= 1
    /\ Len(response_times) >= 1
    /\ errors # <<>>
    /\ errors[1][1] = "ClientError"

----------------------------------------------------------------------------
\* C7: no starvation at the limiter.  Under a fair event loop, with every
\* request in flight eventually finishing, every work unit that waits for a
\* slot eventually holds one, and the await of gather eventually returns.
C7_NoStarvation ==
    /\ \A i \in Tasks : (pc[i] = "waiting") ~> (pc[i] = "holding")
    /\ (mainpc = "gather") ~> (mainpc = "report")

\* Witness: with one slot, the second work unit, which had to queue behind
\* the first, holds the slot after the first one ended.
C7_Witness ==
    /\ args.concurrency = 1
    /\ pc[1] = "done"
    /\ pc[2] = "holding"

----------------------------------------------------------------------------
\* C8: the slot is released on every exit path of the protected section.
\* In every state of the batch the free slots plus the work units that own
\* a slot make up `concurrency`; a work unit that has ended owns none; and
\* once all work units are over, all `concurrency` slots are free.
C8_SlotsReleased ==
    BatchStarted =>
        /\ sem_value >= 0
        /\ sem_value + Cardinality(Holders) = args.concurrency
        /\ AllTasksOver => sem_value = args.concurrency

\* Witness: all work units are over and all slots are free, after one work
\* unit left the section normally and another one left it with the
\* CancelledError raised inside make_request.
C8_Witness ==
    /\ BatchStarted
    /\ AllTasksOver
    /\ sem_value = args.concurrency
    /\ \E i, j \in Tasks : pc[i] = "done" /\ pc[j] = "cancelled" /\ sent[j] = 1

----------------------------------------------------------------------------
\* C9: arguments that violate num_requests > 0, concurrency > 0 or
\* min_id < max_id are rejected before anything happens: the run goes from
\* the validation to its end, no GET is sent, no record is ingested, no
\* task is created and no summary is produced; the rejected run has no
\* further step.
C9_InvalidArgsRejected ==
    ~ValidArgs =>
        /\ mainpc \in {"validate", "rejected"}
        /\ \A i \in Tasks : sent[i] = 0 /\ calls[i] = 0 /\ pc[i] = "unused"
        /\ total_requests = 0
        /\ errors = <<>>
        /\ response_times = <<>>
        /\ reported = NoSummary
        /\ mainpc = "rejected" => ~ENABLED Next

\* Witness: a run rejected only because min_id equals max_id.
C9_Witness ==
    /\ mainpc = "rejected"
    /\ args.requests > 0
    /\ args.concurrency > 0
    /\ args.min_id = args.max_id

----------------------------------------------------------------------------
\* C10 (as claimed): once an interrupt has arrived during the batch, no
\* further GET is issued, and when the interrupted run ends after records
\* were ingested, the summary of these records has been reported.
C10_InterruptStillReports ==
    [][/\ mainpc \in {"cancelling", "interrupted"} => sent' = sent
       /\ (mainpc' = "interrupted" /\ total_requests' > 0) => reported' # NoSummary]_vars

----------------------------------------------------------------------------
\* Vocabulary of the aggregation properties.

\* The records rs with the records at positions j and j + 1 exchanged.
Swap(rs, j) ==
    [k \in 1..Len(rs) |-> IF k = j THEN rs[j + 1]
                          ELSE IF k = j + 1 THEN rs[j]
                          ELSE rs[k]]

Count(seq, m) == Cardinality({k \in 1..Len(seq) : seq[k] = m})

Range(seq) == {seq[k] : k \in 1..Len(seq)}

\* The same elements with the same multiplicities.
SameBag(a, b) ==
    /\ Len(a) = Len(b)
    /\ \A m \in Range(a) \cup Range(b) : Count(a, m) = Count(b, m)

\* Two summaries agree on every field but errors.
NumbersAgree(a, b) ==
    /\ a.total_requests = b.total_requests
    /\ a.successful_requests = b.successful_requests
    /\ a.failed_requests = b.failed_requests
    /\ a.success_rate = b.success_rate
    /\ a.avg_response_time_ms = b.avg_response_time_ms
    /\ a.min_response_time_ms = b.min_response_time_ms
    /\ a.max_response_time_ms = b.max_response_time_ms

\* The summary of a fresh RequestStats fed the records with two neighbours
\* exchanged.  Exchanges of neighbours generate every reordering.
SwappedSummary(j) == GetSummary(IngestAll(Swap(records, j)))

\* The error messages among the records fed.
IngestedErrors == {records[k].error : k \in {n \in 1..Len(records) : ~records[n].succeeded}}

----------------------------------------------------------------------------
\* C11 (as claimed): feeding the same records in another order gives the same
\* summary: the same counters, success rate, average, minimum and maximum,
\* and the same errors as a multiset, also when more than 10 failures were
\* fed.
C11_OrderIndependent ==
    reported # NoSummary =>
        \A j \in 1..(Len(records) - 1) :
            LET other == SwappedSummary(j)
            IN  /\ NumbersAgree(reported, other)
                /\ SameBag(reported.errors, other.errors)

\* C11 (amended): the stats object is the fold of the records fed; feeding the
\* same records in another order gives a summary with the same counters,
\* success rate, average, minimum and maximum; its errors are the same
\* multiset as long as at most 10 failures were fed, and with more than 10
\* failures both summaries list 10 of the ingested messages.
C11_OrderIndependentUpToTruncation ==
    /\ Stats = IngestAll(records)
    /\ reported # NoSummary =>
          \A j \in 1..(Len(records) - 1) :
              LET other == SwappedSummary(j)
              IN  /\ NumbersAgree(reported, other)
                  /\ failed_requests <= ErrorsShown =>
                        SameBag(reported.errors, other.errors)
                  /\ failed_requests > ErrorsShown =>
                        /\ Len(reported.errors) = ErrorsShown
                        /\ Len(other.errors) = ErrorsShown
                        /\ Range(reported.errors) \cup Range(other.errors)
                              \subseteq IngestedErrors

\* Witness: more than 10 failures were fed and summarised, and another order
\* of the same records lists other errors.
C11_Witness ==
    /\ reported # NoSummary
    /\ failed_requests > ErrorsShown
    /\ \E j \in 1..(Len(records) - 1) :
          ~SameBag(reported.errors, SwappedSummary(j).errors)

----------------------------------------------------------------------------
\* C12 (as claimed): the end-of-timing instant is taken after the body read
\* completes: while a task is still reading the body of its response, its
\* response_time has not been computed.
C12_TimingEndsAfterBodyRead ==
    \A i \in Tasks : pc[i] = "text" => response_time[i] = NotMeasured

----------------------------------------------------------------------------
\* C13 (as claimed): after an uninterrupted batch, successful_requests is the
\* number of attempts answered with status 200 and failed_requests the
\* number of all other attempts; when every request was answered 200, the
\* success rate is 100 and the errors of the summary are empty.
C13_SuccessesAre200Responses ==
    mainpc \in {"report", "finished"} =>
        /\ successful_requests = responses[200]
        /\ failed_requests = NumRequests - responses[200]
        /\ responses[200] = NumRequests =>
              /\ get_summary.success_rate[1] = 100 * get_summary.success_rate[2]
              /\ get_summary.errors = <<>>

----------------------------------------------------------------------------
\* C14 (as claimed): when every request was answered with HTTP 500, the
\* summary has success rate 0 and exactly min(10, num_requests) errors, each
\* an "HTTP 500" message, the first ones in ingestion order.
C14_AllAnswered500 ==
    (mainpc \in {"report", "finished"} /\ responses[500] = NumRequests) =>
        /\ get_summary.success_rate[1] = 0
        /\ Len(get_summary.errors)
              = IF NumRequests < ErrorsShown THEN NumRequests ELSE ErrorsShown
        /\ \A k \in 1..Len(get_summary.errors) :
              /\ get_summary.errors[k] = <<"HTTP", 500>>
              /\ get_summary.errors[k] = errors[k]

----------------------------------------------------------------------------
\* C15 (as claimed): every transport-level failure, the expiry of the total
\* timeout included, is ingested with a "ClientError" message, and only a
\* failure that is no transport failure gets an "Exception" message.  Read
\* when add_failure has just appended the message of the running task.
C15_TransportFailuresAreClientErrors ==
    \A i \in Tasks :
        pc[i] = "add_failure_time" =>
            LET kind == errors[Len(errors)][1]
            IN  /\ site[i] \in {"client", "timeout"} => kind = "ClientError"
                /\ kind = "Exception" => site[i] = "exception"

----------------------------------------------------------------------------
\* C16: get_summary is a pure read: a step that hands out a summary leaves
\* total_requests, successful_requests, failed_requests, response_times and
\* errors as they were, and the call that would follow it with no ingestion
\* in between returns the summary it returned.
C16_SummaryIsPureRead ==
    [][reported' # reported => /\ UNCHANGED statsVars
                               /\ reported' = get_summary']_vars

\* Witness: a summary was read from an object holding more errors than the
\* summary lists, and the object still holds them all.
C16_Witness ==
    /\ reported # NoSummary
    /\ Len(reported.errors) = ErrorsShown
    /\ Len(errors) > ErrorsShown
    /\ Stats = IngestAll(records)

----------------------------------------------------------------------------
----------------------------------------------------------------------------
\* C18: the summary is read only after all ingestion has finished: when
\* main() is about to call get_summary or has called it, every work unit has
\* terminated and none is inside add_success or add_failure, and the summary
\* read is still the summary of the stats (no record was added since).
C18_SummaryAfterIngestion ==
    /\ mainpc \in {"report", "finished"} =>
          /\ \A i \in Tasks : IsTask(i) => pc[i] = "done"
          /\ InAdd = {}
          /\ running = NoTask
    /\ reported # NoSummary =>
          /\ mainpc = "finished"
          /\ reported = get_summary

\* Witness: the summary of a full batch with a success and a failure.
C18_Witness ==
    /\ reported # NoSummary
    /\ NumRequests = MaxRequests
    /\ reported.successful_requests > 0
    /\ reported.failed_requests > 0

----------------------------------------------------------------------------
\* C19: no work unit issues more than one GET, whatever the outcome, and
\* over a complete uninterrupted run each of the num_requests work units has
\* issued exactly one: num_requests GETs in all.
C19_ExactlyOneGetEach ==
    /\ \A i \in Tasks : sent[i] <= 1
    /\ mainpc \in {"report", "finished"} =>
          /\ \A i \in Tasks : sent[i] = IF IsTask(i) THEN 1 ELSE 0
          /\ SumFn(sent, Tasks) = NumRequests

\* Witness: a complete run in which one request got a non-200 response and
\* another one ran into the timeout or another exception.
C19_Witness ==
    /\ mainpc = "finished"
    /\ NumRequests = MaxRequests
    /\ \E k \in 1..Len(errors) : errors[k][1] = "HTTP"
    /\ \E k \in 1..Len(errors) : errors[k][1] = "Exception"
    /\ SumFn(sent, Tasks) = MaxRequests

----------------------------------------------------------------------------
\* C20: in every RequestStats state the lengths of the lists track the
\* counters: len(errors) = failed_requests, successful_requests <=
\* len(response_times) <= total_requests, and len(response_times) is
\* successful_requests plus the number of failures ingested with a latency
\* above 0.
C20_ListsTrackCounters ==
    /\ Len(errors) = failed_requests
    /\ successful_requests <= Len(response_times)
    /\ Len(response_times) <= total_requests
    /\ Len(response_times) = successful_requests
          + Cardinality({k \in 1..Len(records) :
                           ~records[k].succeeded /\ records[k].response_time > 0})

\* Witness: a success, a failure with a latency above 0 and a failure with
\* latency 0 were ingested.
C20_Witness ==
    /\ successful_requests > 0
    /\ successful_requests < Len(response_times)
    /\ Len(response_times) < total_requests
    /\ \E k \in 1..Len(records) : ~records[k].succeeded /\ records[k].response_time = 0

====
